---------------------------- MODULE Spec2Model ----------------------------
(***************************************************************************)
(* Model of the two scripts of the repository:                             *)
(*                                                                         *)
(*   dsheet_fix_output.py  (the Output Patcher): reads dsheet_test.shd in  *)
(*       text mode, then reopens it for writing and rewrites it line by    *)
(*       line, replacing the 8th line by a fixed literal;                  *)
(*   dsheet_test.py        (the Model Builder): a straight-line sequence   *)
(*       of calls into the geolib D-Sheet Piling API.                      *)
(*                                                                         *)
(* The file is modelled as the sequence of characters stored on disk.      *)
(* Python's text mode is modelled by what it does: open(..., 'r') decodes  *)
(* with universal newlines ("\r\n" and "\r" both become "\n"), and         *)
(* open(..., 'w') writes every "\n" as os.linesep, which depends on the    *)
(* platform the script runs on.  The files of the model hold text that the *)
(* platform's encoding decodes and encodes back unchanged.                 *)
(***************************************************************************)
EXTENDS Integers, Sequences, FiniteSets, TLC

VARIABLES
    \* ---- Output Patcher ----
    linesep,    \* os.linesep of the platform the script runs on
    exists,     \* whether dsheet_test.shd exists
    disk,       \* the characters of dsheet_test.shd on disk
    before,     \* [exists, data]: the file when the current run started
    hist,       \* the file at the end of each finished run, oldest first
    pc,         \* position of the current run in the script
    rh,         \* the handle of `with open(..., 'r') as f`
    wh,         \* the handle of `with open(..., 'w') as f`
    get_all,    \* the list returned by f.readlines()
    i,          \* the counter of enumerate(get_all, 1)
    wbuf        \* characters written to the write handle and not yet on disk

VARIABLES
    \* ---- Model Builder ----
    bpc,        \* the statement of calculate_sheet_pile that runs next
    bstatus,    \* "running", "done" (returned) or "error" (uncaught exception)
    failed,     \* the statement that raised, 0 while none has
    calls,      \* the library calls that returned, in order
    names,      \* the local variables of calculate_sheet_pile bound so far
    stage_of,   \* the stage id held by each stage variable (-1: unbound)
    soils,      \* the names of the soils registered with the model
    output      \* model.output: "none" until execute() has produced it

pvars == <<linesep, exists, disk, before, hist, pc, rh, wh, get_all, i, wbuf>>

bvars == <<bpc, bstatus, failed, calls, names, stage_of, soils, output>>

vars == <<pvars, bvars>>

----------------------------------------------------------------------------
(* Bounds of the model *)

\* The largest number of lines of an input file.
MaxLines == 10

\* How many times in succession the Patcher is run.
MaxRuns == 2

----------------------------------------------------------------------------
(* Characters and text-mode conversions *)

LF == "\n"
CR == "\r"

\* The string written for line 8 (dsheet_fix_output.py:17).
Literal ==
    << "C", "R", "E", "A", "T", "E", "D", " ", "B", "Y",
       " ", ":", " ", "D", "-", "S", "h", "e", "e", "t",
       " ", "P", "i", "l", "i", "n", "g", " ", "v", "e",
       "r", "s", "i", "o", "n", " ", "1", "9", ".", "3",
       ".", "1", ".", "2", "7", "1", "0", "4", " ", LF >>

\* The number of the line that is replaced (`if i == 8`).
FixLine == 8

\* The value enumerate(get_all, 1) starts counting from.
EnumStart == 1

\* os.linesep: "\n" on POSIX, "\r\n" on Windows.
LineSeps == { <<LF>>, <<CR, LF>> }

\* Reading in text mode with newline=None (the default of open): "\r\n"
\* and a lone "\r" are both translated to "\n".
RECURSIVE Translate(_)
Translate(s) ==
    IF s = <<>> THEN <<>>
    ELSE IF Head(s) = CR
         THEN <<LF>> \o Translate(IF Len(s) >= 2 /\ s[2] = LF
                                  THEN SubSeq(s, 3, Len(s))
                                  ELSE Tail(s))
         ELSE <<Head(s)>> \o Translate(Tail(s))

\* Splitting decoded text into lines, each keeping its "\n"; a last line
\* without "\n" is a line too, and empty text has no lines.
RECURSIVE SplitLines(_, _)
SplitLines(s, cur) ==
    IF s = <<>> THEN (IF cur = <<>> THEN <<>> ELSE <<cur>>)
    ELSE IF Head(s) = LF
         THEN <<Append(cur, LF)>> \o SplitLines(Tail(s), <<>>)
         ELSE SplitLines(Tail(s), Append(cur, Head(s)))

\* f.readlines() on a handle opened with open(name, 'r').
readlines(data) == SplitLines(Translate(data), <<>>)

\* Writing in text mode with newline=None: every "\n" is written as
\* os.linesep, everything else as it is.
RECURSIVE Encode(_, _)
Encode(s, sep) ==
    IF s = <<>> THEN <<>>
    ELSE (IF Head(s) = LF THEN sep ELSE <<Head(s)>>) \o Encode(Tail(s), sep)

\* Mutant of OutLine: the `else` is lost, so that the old line 8 is written
\* after the literal.
OutLineKeepsOld(n, line) == IF n = FixLine THEN Literal \o line ELSE line

\* What the loop body writes for the pair (n, line) of enumerate.
OutLine(n, line) == IF n = FixLine THEN Literal ELSE line

\* Mutant of OpenModeW: the file is opened in a mode that does not truncate.
OpenModeAppend(content) == content

\* What open(name, 'w') leaves of the content of an existing file.
OpenModeW(content) == <<>>

\* Mutant of OpenModeR: a missing file is opened as an empty one.
OpenModeRCreates(ex) == "read"

\* Where open(name, 'r') leads: into the `with` body, or FileNotFoundError.
OpenModeR(ex) == IF ex THEN "read" ELSE "error"

----------------------------------------------------------------------------
(* Input files *)

Terminators == { <<LF>>, <<CR>>, <<CR, LF>> }

\* The text of line k of an input file, without its terminator.
Body(k) == IF k % 3 = 0 THEN <<>> ELSE IF k % 3 = 1 THEN <<"a">> ELSE <<"b">>

\* A file of n lines terminated by `style`, except line p (if any), which is
\* terminated by `alt`; the last line has no terminator unless `closed`.
RECURSIVE BuildFile(_, _, _, _, _, _)
BuildFile(k, n, style, p, alt, closed) ==
    IF k > n THEN <<>>
    ELSE Body(k)
         \o (IF k = n /\ ~closed THEN <<>> ELSE IF k = p THEN alt ELSE style)
         \o BuildFile(k + 1, n, style, p, alt, closed)

InputFiles ==
    { BuildFile(1, n, style, p, alt, closed) :
        n \in 0..MaxLines, style \in Terminators, p \in 0..MaxLines,
        alt \in Terminators, closed \in BOOLEAN }

----------------------------------------------------------------------------
(* The Model Builder: dsheet_test.py *)

\* One statement of calculate_sheet_pile: the operation, the local variable
\* it binds or passes, and the side and stage variable it passes, if any.
Stmt(op, obj, side, stage) ==
    [op |-> op, obj |-> obj, side |-> side, stage |-> stage]

Call(op, obj) == Stmt(op, obj, "-", "-")

\* for stage in [...]: model.<op>(<obj>, side=<side>, stage_id=stage)
ForStages(op, obj, side, stages) ==
    [k \in 1..Len(stages) |-> Stmt(op, obj, side, stages[k])]

\* The five stage variables, in the order their stages are added.
StageVars ==
    << "stage_initial", "stage_first_excavation", "stage_strut",
       "stage_wet_excavation", "stage_pit_dry" >>

\* Soil(name=...): the name of the soil each soil variable holds.
SoilName(v) ==
    CASE v = "soil_clay" -> "Clay"
      [] v = "soil_peat" -> "Peat"
      [] v = "soil_sand_moderate" -> "Sand moderate"
      [] v = "soil_sand_dense" -> "Sand dense"

\* for soil in (soil_clay, soil_peat, soil_sand_moderate, soil_sand_dense)
SoilsToAdd == << "soil_clay", "soil_peat", "soil_sand_moderate", "soil_sand_dense" >>

Layer(top, soilvar) == [top_of_layer |-> top, soil |-> SoilName(soilvar)]

\* SoilLayer(...) with water_pressure_top and/or water_pressure_bottom given.
WetLayer(top, soilvar, wp) == [top_of_layer |-> top, soil |-> SoilName(soilvar)] @@ wp

\* profile_initial = SoilProfile(name="Profile initial", layers=[...])
InitialLayers ==
    << Layer(0, "soil_clay"),
       Layer(-3, "soil_peat"),
       Layer(-4, "soil_sand_moderate"),
       Layer(-8, "soil_clay"),
       Layer(-13, "soil_sand_moderate"),
       Layer(-18, "soil_sand_dense") >>

\* profile_first_excavation = SoilProfile(name="Profile first excavation", ...)
FirstExcavationLayers ==
    << Layer(0, "soil_clay"),
       Layer(-3, "soil_peat"),
       Layer(-4, "soil_sand_moderate"),
       WetLayer(-8, "soil_clay", [water_pressure_bottom |-> 15]),
       WetLayer(-13, "soil_sand_moderate",
                [water_pressure_top |-> 15, water_pressure_bottom |-> 15]),
       WetLayer(-18, "soil_sand_dense",
                [water_pressure_top |-> 15, water_pressure_bottom |-> 15]) >>

\* profile_pit_dry = SoilProfile(name="Profile pit dry", layers=[...])
PitDryLayers ==
    << Layer(0, "soil_clay"),
       Layer(-3, "soil_peat"),
       Layer(-4, "soil_sand_moderate"),
       WetLayer(-8, "soil_clay", [water_pressure_bottom |-> 70]),
       WetLayer(-13, "soil_sand_moderate",
                [water_pressure_top |-> 70, water_pressure_bottom |-> 70]),
       WetLayer(-18, "soil_sand_dense",
                [water_pressure_top |-> 70, water_pressure_bottom |-> 70]) >>

\* Mutant of ProfileLayers: in the pit-dry profile the layers at -8 and -13
\* are listed in the wrong order.
ProfileLayersUnsorted(p) ==
    CASE p = "profile_initial" -> InitialLayers
      [] p = "profile_first_excavation" -> FirstExcavationLayers
      [] p = "profile_pit_dry" ->
            << PitDryLayers[1], PitDryLayers[2], PitDryLayers[3],
               PitDryLayers[5], PitDryLayers[4], PitDryLayers[6] >>
      [] OTHER -> <<>>

\* The layers of the object a variable holds: those of the three soil
\* profiles, none for any other object.
ProfileLayers(p) ==
    CASE p = "profile_initial" -> InitialLayers
      [] p = "profile_first_excavation" -> FirstExcavationLayers
      [] p = "profile_pit_dry" -> PitDryLayers
      [] OTHER -> <<>>

LayerSoils(p) == { ProfileLayers(p)[k].soil : k \in 1..Len(ProfileLayers(p)) }

Prelude ==
    << Call("DSheetPilingModel", "model"),
       Call("construct", "modeltype"),
       Call("set_model", "modeltype"),
       Call("construct", "sheet_pile_properties_AZ18_700_S355"),
       Call("construct", "sheet_pile_properties_AZ20_700_S355"),
       Call("construct", "sheet_pile_properties_AZ26_700_S355"),
       Call("construct", "sheet_element"),
       Call("set_construction", "sheet_element") >>

StageDefs == [k \in 1..Len(StageVars) |-> Call("add_stage", StageVars[k])]

\* soil_x = Soil(name=...) and the assignments of its parameters
SoilDefs ==
    << Call("construct", "soil_clay"), Call("construct", "soil_peat"),
       Call("construct", "soil_sand_moderate"), Call("construct", "soil_sand_dense") >>

\* for soil in (...): model.add_soil(soil)
SoilLoop == [k \in 1..Len(SoilsToAdd) |-> Call("add_soil", SoilsToAdd[k])]

ProfileLoops ==
    << Call("construct", "profile_initial"),
       Call("construct", "profile_first_excavation"),
       Call("construct", "profile_pit_dry") >>
    \o ForStages("add_profile", "profile_initial", "BOTH", StageVars)
    \o ForStages("add_profile", "profile_first_excavation", "LEFT",
                 <<"stage_first_excavation", "stage_strut">>)
    \o ForStages("add_profile", "profile_pit_dry", "LEFT", <<"stage_pit_dry">>)

SurfaceLoops ==
    << Call("construct", "surface_ground_level"),
       Call("construct", "surface_first_excavation"),
       Call("construct", "surface_full_excavation") >>
    \o ForStages("add_surface", "surface_ground_level", "RIGHT", StageVars)
    \o ForStages("add_surface", "surface_first_excavation", "LEFT",
                 <<"stage_first_excavation", "stage_strut">>)
    \o ForStages("add_surface", "surface_full_excavation", "LEFT",
                 <<"stage_wet_excavation", "stage_pit_dry">>)

\* Mutant of HeadLineLoops: the third loop runs over the stages of the third
\* surface loop.
HeadLineLoopsAsSurfaces ==
    << Call("construct", "water_level_initial"),
       Call("construct", "water_level_min2_5"),
       Call("construct", "water_level_min_8") >>
    \o ForStages("add_head_line", "water_level_initial", "BOTH", StageVars)
    \o ForStages("add_head_line", "water_level_min2_5", "LEFT",
                 <<"stage_first_excavation", "stage_strut">>)
    \o ForStages("add_head_line", "water_level_min_8", "LEFT",
                 <<"stage_wet_excavation", "stage_pit_dry">>)

HeadLineLoops ==
    << Call("construct", "water_level_initial"),
       Call("construct", "water_level_min2_5"),
       Call("construct", "water_level_min_8") >>
    \o ForStages("add_head_line", "water_level_initial", "BOTH", StageVars)
    \o ForStages("add_head_line", "water_level_min2_5", "LEFT",
                 <<"stage_first_excavation", "stage_strut">>)
    \o ForStages("add_head_line", "water_level_min_8", "LEFT", <<"stage_pit_dry">>)

CalcOptions ==
    << Call("construct", "calc_options"),
       Call("set_calculation_options", "calc_options"),
       Call("construct", "calc_options_per_stage") >>
    \o ForStages("add_calculation_options_per_stage", "calc_options_per_stage", "-",
                 <<"stage_first_excavation", "stage_strut",
                   "stage_wet_excavation", "stage_pit_dry">>)

StrutLoop ==
    << Call("construct", "strut1") >>
    \o ForStages("add_anchor_or_strut", "strut1", "-",
                 <<"stage_strut", "stage_wet_excavation", "stage_pit_dry">>)

\* Mutant of LoadLoops: the first loop is run once more over stages that
\* already have the load.
LoadLoopsRepeated ==
    << Call("construct", "uniform_load_20kPa") >>
    \o ForStages("add_load", "uniform_load_20kPa", "-",
                 <<"stage_first_excavation", "stage_strut",
                   "stage_wet_excavation", "stage_pit_dry">>)
    \o ForStages("add_load", "uniform_load_20kPa", "-",
                 <<"stage_wet_excavation", "stage_pit_dry">>)
    \o << Call("construct", "uniform_load_pit_dry") >>
    \o ForStages("add_load", "uniform_load_pit_dry", "-", <<"stage_pit_dry">>)

LoadLoops ==
    << Call("construct", "uniform_load_20kPa") >>
    \o ForStages("add_load", "uniform_load_20kPa", "-",
                 <<"stage_first_excavation", "stage_strut",
                   "stage_wet_excavation", "stage_pit_dry">>)
    \o << Call("construct", "uniform_load_pit_dry") >>
    \o ForStages("add_load", "uniform_load_pit_dry", "-", <<"stage_pit_dry">>)

\* Mutant of Calculate: execute is called before the model is serialized.
CalculateExecuteFirst ==
    << Call("construct", "dsheet_file"),
       Call("execute", "model"),
       Call("serialize", "dsheet_file"),
       Call("output_dict", "output_dict"),
       Call("print", "output_dict") >>

Calculate ==
    << Call("construct", "dsheet_file"),
       Call("serialize", "dsheet_file"),
       Call("execute", "model"),
       Call("output_dict", "output_dict"),
       Call("print", "output_dict") >>

\* Mutant of Program: the soils are registered after the profiles are added.
ProgramSoilsLate ==
    Prelude \o StageDefs \o SoilDefs \o ProfileLoops \o SoilLoop \o SurfaceLoops
    \o HeadLineLoops \o CalcOptions \o StrutLoop \o LoadLoops \o Calculate

\* The body of calculate_sheet_pile, statement by statement.
Program ==
    Prelude \o StageDefs \o SoilDefs \o SoilLoop \o ProfileLoops \o SurfaceLoops
    \o HeadLineLoops \o CalcOptions \o StrutLoop \o LoadLoops \o Calculate

\* Mutant of OnError: the exception is swallowed and the script goes on.
OnErrorSwallowed(k) == [status |-> "running", next |-> k + 1]

\* The script has no try/except: an exception raised by statement k ends the
\* process there.
OnError(k) == [status |-> "error", next |-> k]

\* What the solver may leave in model.output.
Outputs == {"results", "empty results"}

Cur == Program[bpc]

At(op) == bstatus = "running" /\ bpc <= Len(Program) /\ Cur.op = op

\* The statement returns: it is logged with the stage id it passed and the
\* layers of the object it built or passed (of a soil profile), and
\* control moves to the next statement, or out of the function after the last.
Return ==
    /\ calls' = Append(calls,
                       [op |-> Cur.op, obj |-> Cur.obj, side |-> Cur.side,
                        stage |-> Cur.stage,
                        layers |-> ProfileLayers(Cur.obj),
                        id |-> IF Cur.stage = "-" THEN -1 ELSE stage_of[Cur.stage]])
    /\ bpc' = bpc + 1
    /\ bstatus' = IF bpc = Len(Program) THEN "done" ELSE "running"
    /\ UNCHANGED <<failed, pvars>>

BuilderIdle ==
    /\ bpc = 1
    /\ bstatus = "running"
    /\ failed = 0
    /\ calls = <<>>
    /\ names = {}
    /\ stage_of = [v \in {StageVars[k] : k \in 1..Len(StageVars)} |-> -1]
    /\ soils = {}
    /\ output = "none"

PatcherIdle ==
    /\ linesep = <<LF>>
    /\ exists = FALSE
    /\ disk = <<>>
    /\ before = [exists |-> FALSE, data |-> <<>>]
    /\ hist = <<>>
    /\ pc = "start"
    /\ rh = "none"
    /\ wh = "none"
    /\ get_all = <<>>
    /\ i = 0
    /\ wbuf = <<>>

BuilderInit == BuilderIdle /\ PatcherIdle

\* model = DSheetPilingModel()
NewModel ==
    /\ At("DSheetPilingModel")
    /\ names' = names \cup {Cur.obj}
    /\ Return
    /\ UNCHANGED <<stage_of, soils, output>>

\* x = SomeClass(...): SheetModelType, SheetPileProperties, Sheet, Soil (with
\* its parameter assignments), SoilProfile, Surface, WaterLevel, the
\* calculation options, Strut, UniformLoad, Path
Construct ==
    /\ At("construct")
    /\ names' = names \cup {Cur.obj}
    /\ Return
    /\ UNCHANGED <<stage_of, soils, output>>

\* model.set_model(modeltype)
SetModel ==
    /\ At("set_model")
    /\ Cur.obj \in names
    /\ Return
    /\ UNCHANGED <<names, stage_of, soils, output>>

\* model.set_construction(top_level=level_top, elements=[sheet_element])
SetConstruction ==
    /\ At("set_construction")
    /\ Cur.obj \in names
    /\ Return
    /\ UNCHANGED <<names, stage_of, soils, output>>

\* stage_x = model.add_stage(...): the library returns the id of the new
\* stage, the number of stages added before it
AddStage ==
    /\ At("add_stage")
    /\ stage_of' = [stage_of EXCEPT
                      ![Cur.obj] = Cardinality({v \in DOMAIN stage_of : stage_of[v] >= 0})]
    /\ names' = names \cup {Cur.obj}
    /\ Return
    /\ UNCHANGED <<soils, output>>

\* model.add_soil(soil)
AddSoil ==
    /\ At("add_soil")
    /\ Cur.obj \in names
    /\ soils' = soils \cup {SoilName(Cur.obj)}
    /\ Return
    /\ UNCHANGED <<names, stage_of, output>>

\* model.add_profile(profile=..., side=..., stage_id=stage)
AddProfile ==
    /\ At("add_profile")
    /\ Cur.obj \in names
    /\ Return
    /\ UNCHANGED <<names, stage_of, soils, output>>

\* model.add_surface(surface=..., side=..., stage_id=stage)
AddSurface ==
    /\ At("add_surface")
    /\ Cur.obj \in names
    /\ Return
    /\ UNCHANGED <<names, stage_of, soils, output>>

\* model.add_head_line(water_level=..., side=..., stage_id=stage)
AddHeadLine ==
    /\ At("add_head_line")
    /\ Cur.obj \in names
    /\ Return
    /\ UNCHANGED <<names, stage_of, soils, output>>

\* model.set_calculation_options(calculation_options=calc_options)
SetCalculationOptions ==
    /\ At("set_calculation_options")
    /\ Cur.obj \in names
    /\ Return
    /\ UNCHANGED <<names, stage_of, soils, output>>

\* model.add_calculation_options_per_stage(..., stage_id=stage)
AddCalculationOptionsPerStage ==
    /\ At("add_calculation_options_per_stage")
    /\ Cur.obj \in names
    /\ Return
    /\ UNCHANGED <<names, stage_of, soils, output>>

\* model.add_anchor_or_strut(support=strut1, stage_id=stage)
AddAnchorOrStrut ==
    /\ At("add_anchor_or_strut")
    /\ Cur.obj \in names
    /\ Return
    /\ UNCHANGED <<names, stage_of, soils, output>>

\* model.add_load(load=..., stage_id=stage)
AddLoad ==
    /\ At("add_load")
    /\ Cur.obj \in names
    /\ Return
    /\ UNCHANGED <<names, stage_of, soils, output>>

\* model.serialize(dsheet_file)
Serialize ==
    /\ At("serialize")
    /\ Cur.obj \in names
    /\ Return
    /\ UNCHANGED <<names, stage_of, soils, output>>

\* model.execute(): the solver runs to its end and leaves its results
Execute ==
    /\ At("execute")
    /\ output' \in Outputs
    /\ Return
    /\ UNCHANGED <<names, stage_of, soils>>

\* output_dict = model.output.dict()
OutputDict ==
    /\ At("output_dict")
    /\ output # "none"
    /\ names' = names \cup {Cur.obj}
    /\ Return
    /\ UNCHANGED <<stage_of, soils, output>>

\* print(output_dict), then the function returns
PrintOutput ==
    /\ At("print")
    /\ Cur.obj \in names
    /\ Return
    /\ UNCHANGED <<names, stage_of, soils, output>>

\* the library call of the current statement raises
Raise ==
    /\ bstatus = "running"
    /\ bpc <= Len(Program)
    /\ Cur.op # "print"
    /\ failed' = bpc
    /\ bstatus' = OnError(bpc).status
    /\ bpc' = OnError(bpc).next
    /\ UNCHANGED <<calls, names, stage_of, soils, output, pvars>>

BuilderNext ==
    \/ NewModel
    \/ Construct
    \/ SetModel
    \/ SetConstruction
    \/ AddStage
    \/ AddSoil
    \/ AddProfile
    \/ AddSurface
    \/ AddHeadLine
    \/ SetCalculationOptions
    \/ AddCalculationOptionsPerStage
    \/ AddAnchorOrStrut
    \/ AddLoad
    \/ Serialize
    \/ Execute
    \/ OutputDict
    \/ PrintOutput
    \/ Raise

BuilderSpec == BuilderInit /\ [][BuilderNext]_vars

----------------------------------------------------------------------------
(* The Output Patcher: dsheet_fix_output.py *)

Terminal == {"done", "error", "killed"}

PatcherInit ==
    /\ linesep \in LineSeps
    /\ \/ exists = FALSE /\ disk = <<>>
       \/ exists = TRUE /\ disk \in InputFiles
    /\ before = [exists |-> exists, data |-> disk]
    /\ hist = <<>>
    /\ pc = "start"
    /\ rh = "none"
    /\ wh = "none"
    /\ get_all = <<>>
    /\ i = 0
    /\ wbuf = <<>>
    /\ BuilderIdle

\* with open("dsheet_test.shd", 'r') as f:
OpenRead ==
    /\ pc = "start"
    /\ pc' = OpenModeR(exists)
    /\ IF pc' = "error"
       THEN /\ hist' = Append(hist, [exists |-> exists, data |-> disk])
            /\ UNCHANGED rh
       ELSE /\ rh' = "open"
            /\ UNCHANGED hist
    /\ UNCHANGED <<bvars, linesep, exists, disk, before, wh, get_all, i, wbuf>>

\*     get_all = f.readlines()
ReadLines ==
    /\ pc = "read"
    /\ get_all' = readlines(disk)
    /\ pc' = "closeRead"
    /\ UNCHANGED <<bvars, linesep, exists, disk, before, hist, rh, wh, i, wbuf>>

\* leaving the first `with` block closes the read handle
CloseRead ==
    /\ pc = "closeRead"
    /\ rh' = "closed"
    /\ pc' = "openWrite"
    /\ UNCHANGED <<bvars, linesep, exists, disk, before, hist, wh, get_all, i, wbuf>>

\* with open("dsheet_test.shd", 'w') as f:   and the start of enumerate
OpenWrite ==
    /\ pc = "openWrite"
    /\ wh' = "open"
    /\ exists' = TRUE
    /\ disk' = OpenModeW(disk)
    /\ wbuf' = <<>>
    /\ i' = EnumStart
    /\ pc' = "loop"
    /\ UNCHANGED <<bvars, linesep, before, hist, rh, get_all>>

\* one iteration of the for loop: the pair (i, line) is (i, get_all[k])
\* where k is the position of the pair in the list
WriteLine ==
    /\ pc = "loop"
    /\ i - EnumStart + 1 <= Len(get_all)
    /\ wbuf' = wbuf \o Encode(OutLine(i, get_all[i - EnumStart + 1]), linesep)
    /\ i' = i + 1
    /\ UNCHANGED <<bvars, linesep, exists, disk, before, hist, pc, rh, wh, get_all>>

\* the buffered writer empties its buffer into the file
Flush ==
    /\ pc = "loop"
    /\ wbuf # <<>>
    /\ disk' = disk \o wbuf
    /\ wbuf' = <<>>
    /\ UNCHANGED <<bvars, linesep, exists, before, hist, pc, rh, wh, get_all, i>>

\* the loop is exhausted; leaving the second `with` block flushes and closes
CloseWrite ==
    /\ pc = "loop"
    /\ i - EnumStart + 1 > Len(get_all)
    /\ disk' = disk \o wbuf
    /\ wbuf' = <<>>
    /\ wh' = "closed"
    /\ pc' = "done"
    /\ hist' = Append(hist, [exists |-> exists, data |-> disk'])
    /\ UNCHANGED <<bvars, linesep, exists, before, rh, get_all, i>>

\* the process is terminated from outside before the script ends: what was
\* still buffered is lost
Kill ==
    /\ pc \notin Terminal
    /\ pc' = "killed"
    /\ wbuf' = <<>>
    /\ rh' = IF rh = "open" THEN "closed" ELSE rh
    /\ wh' = IF wh = "open" THEN "closed" ELSE wh
    /\ UNCHANGED <<bvars, linesep, exists, disk, before, hist, get_all, i>>

\* the script is started again on the file the previous run left
Rerun ==
    /\ pc \in {"done", "error"}
    /\ Len(hist) < MaxRuns
    /\ before' = [exists |-> exists, data |-> disk]
    /\ pc' = "start"
    /\ rh' = "none"
    /\ wh' = "none"
    /\ get_all' = <<>>
    /\ i' = 0
    /\ wbuf' = <<>>
    /\ UNCHANGED <<bvars, linesep, exists, disk, hist>>

PatcherNext ==
    \/ OpenRead
    \/ ReadLines
    \/ CloseRead
    \/ OpenWrite
    \/ WriteLine
    \/ Flush
    \/ CloseWrite
    \/ Kill
    \/ Rerun

PatcherSpec == PatcherInit /\ [][PatcherNext]_vars

----------------------------------------------------------------------------
(* Properties of the Output Patcher *)

\* The lines of a file as stored, each with the terminator it has on disk
\* ("\n", "\r" or "\r\n").
RECURSIVE RawSplit(_, _)
RawSplit(s, cur) ==
    IF s = <<>> THEN (IF cur = <<>> THEN <<>> ELSE <<cur>>)
    ELSE IF Head(s) = CR /\ Len(s) >= 2 /\ s[2] = LF
         THEN <<cur \o <<CR, LF>>>> \o RawSplit(SubSeq(s, 3, Len(s)), <<>>)
    ELSE IF Head(s) \in {CR, LF}
         THEN <<Append(cur, Head(s))>> \o RawSplit(Tail(s), <<>>)
    ELSE RawSplit(Tail(s), Append(cur, Head(s)))

RawLines(data) == RawSplit(data, <<>>)

\* The number of lines of a file.
NLines(data) == Len(readlines(data))

IsPrefix(s, t) == Len(s) <= Len(t) /\ s = SubSeq(t, 1, Len(s))

RECURSIVE Concat(_)
Concat(ls) == IF ls = <<>> THEN <<>> ELSE Head(ls) \o Concat(Tail(ls))

\* The file a complete run leaves, given the file it started from: the lines
\* of the input as read in text mode, the 8th replaced, each written with
\* the platform's line separator.
Patched(data, sep) ==
    LET ls == readlines(data)
    IN  Concat([k \in 1..Len(ls) |->
                  Encode(IF k = 8 THEN Literal ELSE ls[k], sep)])

\* C1 (as stated): after a run on a file of N >= 8 lines the file has N
\* lines, line 8 is the literal, and every other line is byte for byte the
\* line of the input.
C1_AsStated ==
    (pc = "done" /\ before.exists /\ NLines(before.data) >= 8) =>
        LET N == NLines(before.data)
            inp == RawLines(before.data)
            out == RawLines(disk)
        IN  /\ NLines(disk) = N
            /\ readlines(disk)[8] = Literal
            /\ Len(out) = N
            /\ Len(inp) = N
            /\ \A k \in (1..N) \ {8} : out[k] = inp[k]

\* What does hold of a run on a file of N >= 8 lines: read back in text
\* mode, the file has N lines, line 8 is the literal and every other line
\* is the input's line as text mode reads it.
PatchedAsText ==
    (pc = "done" /\ before.exists /\ NLines(before.data) >= 8) =>
        LET inp == readlines(before.data)
            out == readlines(disk)
        IN  /\ Len(out) = Len(inp)
            /\ out[8] = Literal
            /\ \A k \in (1..Len(inp)) \ {8} : out[k] = inp[k]

\* C2 (as stated): a run on an existing file of fewer than 8 lines ends
\* without error and leaves the content of the file as it was.
C2_AsStated ==
    (pc \in {"done", "error"} /\ before.exists /\ NLines(before.data) < 8) =>
        (pc = "done" /\ disk = before.data)

\* What does hold of a run on a file of fewer than 8 lines: it ends without
\* error and the file reads back, in text mode, as the input does.
ShortAsText ==
    (pc \in {"done", "error"} /\ before.exists /\ NLines(before.data) < 8) =>
        (pc = "done" /\ readlines(disk) = readlines(before.data))

\* C3: running the Patcher again leaves the file as the first run left it.
C3_Idempotent ==
    \A j \in 2..Len(hist) : hist[j] = hist[1]

\* A second run has rewritten a file of at least 8 lines.
C3_Witness ==
    /\ Len(hist) >= 2
    /\ pc = "done"
    /\ Len(get_all) >= 8
    /\ get_all[8] = Literal

\* C4 (as stated): when the file does not exist, the run ends without
\* raising an error and without creating or changing any file.
C4_AsStated ==
    (~before.exists /\ pc \in {"done", "error"}) => (pc # "error" /\ ~exists)

\* C4 (amended): when the file does not exist, the run ends with the error
\* raised by open(..., 'r'); the file is never opened for writing and is not
\* created.
C4_MissingFileRaises ==
    ~before.exists =>
        /\ ~exists
        /\ wh = "none"
        /\ rh = "none"
        /\ pc \in {"start", "error", "killed"}

\* A run on a missing file has ended with the error.
C4_Witness ==
    ~before.exists /\ ~exists /\ pc = "error" /\ Len(hist) >= 1

\* C10: the file is truncated only once the whole content has been read and
\* the read handle closed; from then on the file on disk is a prefix of the
\* patched content (empty right after the truncation), also when the run is
\* cut short, and what was read is never written back elsewhere.
C10_NonAtomicRewrite ==
    wh # "none" =>
        /\ rh = "closed"
        /\ get_all = readlines(before.data)
        /\ IsPrefix(disk \o wbuf, Patched(before.data, linesep))
        /\ (pc = "loop" /\ i = 1 => disk = <<>>)
        /\ (pc = "done" => disk = Patched(before.data, linesep))

\* A run was cut short between the truncation and the end of the loop and
\* left a file that is neither the original, nor the patched file, nor empty.
C10_Witness ==
    /\ pc = "killed"
    /\ wh = "closed"
    /\ disk # <<>>
    /\ disk # before.data
    /\ disk # Patched(before.data, linesep)
    /\ IsPrefix(disk, Patched(before.data, linesep))

----------------------------------------------------------------------------
(* Properties of the Model Builder *)

\* The positions in the log of the calls of an operation.
Idx(op) == { k \in 1..Len(calls) : calls[k].op = op }

Registrations ==
    { "set_model", "set_construction", "add_stage", "add_soil", "add_profile",
      "add_surface", "add_head_line", "set_calculation_options",
      "add_calculation_options_per_stage", "add_anchor_or_strut", "add_load" }

RegistrationsOf(s) == { k \in 1..Len(s) : s[k].op \in Registrations }

\* C5: serialize, execute and the read of the result are each called at
\* most once, never before the previous one, and serialize only after every
\* registration call; a run that completes has made each exactly once,
\* after all the registration calls of the script.
C5_CallOrder ==
    /\ \A op \in {"serialize", "execute", "output_dict"} : Cardinality(Idx(op)) <= 1
    /\ \A s \in Idx("serialize") :
          /\ \A k \in RegistrationsOf(calls) : k < s
          /\ Cardinality(RegistrationsOf(calls)) = Cardinality(RegistrationsOf(Program))
    /\ \A e \in Idx("execute") : \E s \in Idx("serialize") : s < e
    /\ \A r \in Idx("output_dict") : \E e \in Idx("execute") : e < r
    /\ bstatus = "done" =>
          \A op \in {"serialize", "execute", "output_dict"} : Cardinality(Idx(op)) = 1

\* A run has completed.
C5_Witness ==
    /\ bstatus = "done"
    /\ Idx("execute") # {}
    /\ Cardinality(RegistrationsOf(calls)) >= 49

\* C6: once a call has raised, the run has ended there: the calls made are
\* exactly the statements before it. In particular execute is not called
\* after a failed serialize, and the result is neither read nor printed
\* after a failed execute.
C6_FailStop ==
    failed # 0 =>
        /\ bstatus = "error"
        /\ bpc = failed
        /\ Len(calls) = failed - 1
        /\ \A k \in 1..Len(calls) : calls[k].op = Program[k].op
        /\ (Program[failed].op = "serialize" => Idx("execute") = {})
        /\ (Program[failed].op = "execute" =>
                Idx("output_dict") = {} /\ Idx("print") = {} /\ output = "none")

\* execute has raised.
C6_Witness ==
    /\ failed # 0
    /\ Program[failed].op = "execute"
    /\ Idx("serialize") # {}
    /\ bstatus = "error"

\* C7: whenever add_profile is called, every soil named by a layer of the
\* profile has been registered by an earlier add_soil call.
C7_SoilBeforeProfile ==
    /\ At("add_profile") => LayerSoils(Cur.obj) \subseteq soils
    /\ \A k \in Idx("add_profile") :
          \A s \in LayerSoils(calls[k].obj) :
              \E j \in Idx("add_soil") : j < k /\ SoilName(calls[j].obj) = s

\* All eight add_profile calls have been made, each profile naming soils.
C7_Witness ==
    /\ Cardinality(Idx("add_profile")) = 8
    /\ \A k \in Idx("add_profile") : Cardinality(LayerSoils(calls[k].obj)) = 4

\* The objects passed to an operation, numbered in the order in which they
\* are first passed: the base variant is 1, the second 2, the third 3.
FirstIdx(op, o) ==
    CHOOSE k \in Idx(op) :
        calls[k].obj = o /\ \A j \in Idx(op) : calls[j].obj = o => k <= j

Rank(op, o) ==
    Cardinality({ calls[j].obj : j \in { j \in Idx(op) : j <= FirstIdx(op, o) } })

\* The (variant, side, stage id) triples an operation was called with.
Mapping(op) ==
    { <<Rank(op, calls[k].obj), calls[k].side, calls[k].id>> : k \in Idx(op) }

\* C8 (as stated): surfaces and groundwater levels are attached with the
\* same (stage, side) mapping as the soil profiles.
C8_AsStated ==
    bstatus = "done" =>
        /\ Mapping("add_surface") = Mapping("add_profile")
        /\ Mapping("add_head_line") = Mapping("add_profile")

\* C8 (amended): the groundwater levels are attached with the mapping of
\* the profiles (base variant on both sides in all five stages, second
\* variant on the left in stages 1 and 2, third on the left in stage 4);
\* the surfaces are not: their base variant is on the right side in all
\* five stages, the second on the left in stages 1 and 2, and the third on
\* the left in stages 3 and 4.
C8_Mappings ==
    bstatus = "done" =>
        /\ Mapping("add_profile") =
              { <<1, "BOTH", s>> : s \in 0..4 }
              \cup { <<2, "LEFT", 1>>, <<2, "LEFT", 2>>, <<3, "LEFT", 4>> }
        /\ Mapping("add_head_line") = Mapping("add_profile")
        /\ Mapping("add_surface") =
              { <<1, "RIGHT", s>> : s \in 0..4 }
              \cup { <<2, "LEFT", 1>>, <<2, "LEFT", 2>>,
                     <<3, "LEFT", 3>>, <<3, "LEFT", 4>> }

\* A run has completed with profiles, surfaces and water levels attached.
C8_Witness ==
    /\ bstatus = "done"
    /\ Idx("add_profile") # {}
    /\ Idx("add_surface") # {}
    /\ Idx("add_head_line") # {}
    /\ Mapping("add_surface") # Mapping("add_head_line")

\* The (load, stage id) pairs of the add_load calls.
LoadPairs == { <<calls[k].obj, calls[k].id>> : k \in Idx("add_load") }

ProfileCalls == { k \in 1..Len(calls) : calls[k].layers # <<>> }

StrictlyDecreasingTops(ls) ==
    \A j \in 1..(Len(ls) - 1) : ls[j].top_of_layer > ls[j + 1].top_of_layer

\* C11: in every soil profile the Builder builds, and in every profile it
\* passes to add_profile, the top elevations of the layers are strictly
\* decreasing from the first layer to the last; a run that completes has
\* built and attached the three profiles, of six layers each.
C11_LayerOrder ==
    /\ \A k \in ProfileCalls : StrictlyDecreasingTops(calls[k].layers)
    /\ bstatus = "done" =>
          /\ { calls[k].obj : k \in ProfileCalls \cap Idx("construct") } =
                {"profile_initial", "profile_first_excavation", "profile_pit_dry"}
          /\ { calls[k].obj : k \in Idx("add_profile") } =
                {"profile_initial", "profile_first_excavation", "profile_pit_dry"}
          /\ \A k \in Idx("add_profile") : Len(calls[k].layers) = 6

\* The three profiles have been built and all eight add_profile calls made.
C11_Witness ==
    /\ Cardinality(ProfileCalls \cap Idx("construct")) = 3
    /\ Cardinality(Idx("add_profile")) = 8
    /\ \E k \in Idx("add_profile") :
          /\ calls[k].obj = "profile_pit_dry"
          /\ Len(calls[k].layers) = 6
          /\ calls[k].layers[1].top_of_layer = 0
          /\ calls[k].layers[6].top_of_layer = -18

=============================================================================
